---------------------------- MODULE Spec2Model ----------------------------
(***************************************************************************)
(* A model of atk-executor.js: the log scanner (extractOAuthUrl,           *)
(* extractAuthPort), the port-forwarding URL builder                       *)
(* (generatePortForwardingUrl), the command runners (executeCommand,       *)
(* executeCommandStreaming with its data, close and error events) and the  *)
(* driving sequence testATKExecution.                                      *)
(*                                                                         *)
(* Text is a sequence of one-character strings, so that the regular        *)
(* expressions of the source are matched character by character.  The JS   *)
(* value null/undefined is the one-element sequence Null, which is no text *)
(* (its element is not a single character).                                *)
(***************************************************************************)
EXTENDS Integers, Sequences, FiniteSets, TLC

VARIABLES
  pc,             \* position of the running code
  env,            \* process.env: [codespace, domain]
  logContent,     \* the text handed to the scanner (auth.log as read)
  oauthUrl,       \* result of extractOAuthUrl
  authPort,       \* result of extractAuthPort
  publicAuthUrl,  \* result of generatePortForwardingUrl
  summaryUrls,    \* the three URLs of the final summary
  events,         \* calls and console lines of testATKExecution, in order
  exitCode,       \* process exit status (-1 while running)
  calls           \* the invocations of executeCommandStreaming, by number

vars ==
  <<pc, env, logContent, oauthUrl, authPort, publicAuthUrl, summaryUrls, events, exitCode,
    calls>>

-----------------------------------------------------------------------------
(* Bounds of the model *)

\* texts are made of at most MaxFrags fragments
MaxFrags == 3
\* parseInt saturates here: every value above PortHigh is treated alike
ParseCap == 1000000

(* Program constants *)
DefaultPort == 3978
PortLow == 1000
PortHigh == 65535
AuthServerPort == 3978
AgentUiPort == 56150
DevelopmentPort == 3000

Null == <<"null">>

-----------------------------------------------------------------------------
(* Literals of the source, as character sequences *)

UrlLit ==
  <<"h", "t", "t", "p", "s", ":", "/", "/", "l", "o", "g", "i", "n", ".",
    "m", "i", "c", "r", "o", "s", "o", "f", "t", "o", "n", "l", "i", "n",
    "e", ".", "c", "o", "m", "/">>
HttpsLit ==
  <<"h", "t", "t", "p", "s", ":", "/", "/">>
LoginLit ==
  <<"l", "o", "g", "i", "n">>
LocalhostLit ==
  <<"l", "o", "c", "a", "l", "h", "o", "s", "t", ":">>
LoopbackLit ==
  <<"1", "2", "7", ".", "0", ".", "0", ".", "1", ":">>
PortLit ==
  <<"p", "o", "r", "t", " ">>
ServerLit ==
  <<"s", "e", "r", "v", "e", "r">>
UpperCase ==
  <<"A", "B", "C", "D", "E", "F", "G", "H", "I", "J", "K", "L", "M", "N",
    "O", "P", "Q", "R", "S", "T", "U", "V", "W", "X", "Y", "Z">>
LowerCase ==
  <<"a", "b", "c", "d", "e", "f", "g", "h", "i", "j", "k", "l", "m", "n",
    "o", "p", "q", "r", "s", "t", "u", "v", "w", "x", "y", "z">>
DigitChars ==
  <<"0", "1", "2", "3", "4", "5", "6", "7", "8", "9">>
AppGithubDev ==
  <<".", "a", "p", "p", ".", "g", "i", "t", "h", "u", "b", ".", "d", "e", "v">>
GithubPreviewDev ==
  <<".", "g", "i", "t", "h", "u", "b", "p", "r", "e", "v", "i", "e", "w",
    ".", "d", "e", "v">>
HttpLocalhost ==
  <<"h", "t", "t", "p", ":", "/", "/", "l", "o", "c", "a", "l", "h", "o",
    "s", "t", ":">>

\* \s of the regular expressions, which is also what trim removes; a
\* character that cannot be written in a string is named by its code point
WhiteSpace ==
  { " ", "\t", "\n", "\r", "\f", "U+000B", "U+00A0", "U+1680",
    "U+2000", "U+2001", "U+2002", "U+2003", "U+2004", "U+2005", "U+2006",
    "U+2007", "U+2008", "U+2009", "U+200A", "U+2028", "U+2029", "U+202F",
    "U+205F", "U+3000", "U+FEFF" }
\* what "." does not match
LineTerminators == {"\n", "\r", "U+2028", "U+2029"}
Digits == {DigitChars[k] : k \in 1..10}

-----------------------------------------------------------------------------
(* Regular-expression matching, as String.prototype.match performs it *)

\* case folding of the i flag
Canonicalize(c) ==
  IF \E k \in 1..26 : LowerCase[k] = c
    THEN UpperCase[CHOOSE k \in 1..26 : LowerCase[k] = c]
    ELSE c

\* the literal lit occurs in s at index i
LitAt(lit, s, i, ignoreCase) ==
  /\ i >= 1
  /\ i + Len(lit) - 1 <= Len(s)
  /\ \A k \in 1..Len(lit) :
       IF ignoreCase THEN Canonicalize(s[i + k - 1]) = Canonicalize(lit[k])
                     ELSE s[i + k - 1] = lit[k]

InClass(class, c) ==
  IF class = "nonspace" THEN c \notin WhiteSpace ELSE c \in Digits

\* greedy class*: index of the last character of the run starting at i
\* (i - 1 when the run is empty); the run stops at the first character
\* outside the class or at the end of the text
RunEnd(s, i, class) ==
  LET stop == CHOOSE k \in i..(Len(s) + 1) :
                /\ k = Len(s) + 1 \/ ~InClass(class, s[k])
                /\ \A m \in i..(k - 1) : InClass(class, s[m])
  IN IF i > Len(s) THEN i - 1 ELSE stop - 1

NoMatch == [index |-> 0, last |-> 0, group |-> 0]

\* faulty variant: [^\s]+? in place of [^\s]+ (one character of the token)
UrlPatternAt_Lazy(s, i) ==
  LET j == i + Len(UrlLit)
  IN IF LitAt(UrlLit, s, i, FALSE) /\ RunEnd(s, j, "nonspace") >= j
       THEN [index |-> i, last |-> j, group |-> 0]
       ELSE NoMatch

\* /https:\/\/login\.microsoftonline\.com\/[^\s]+/ tried at index i
UrlPatternAt(s, i) ==
  LET j == i + Len(UrlLit)
      e == RunEnd(s, j, "nonspace")
  IN IF LitAt(UrlLit, s, i, FALSE) /\ e >= j
       THEN [index |-> i, last |-> e, group |-> 0]
       ELSE NoMatch

\* the first [^\s]* (from j, at most up to e) gives characters back until
\* "login" follows: the last p in j..e+1 where it does; then the second
\* [^\s]* runs to the end of the run.  0 when there is no such p.
BacktrackLogin(s, e, j) ==
  LET found == {p \in j..(e + 1) : LitAt(LoginLit, s, p, FALSE)}
      p == CHOOSE x \in found : \A y \in found : y <= x
  IN IF found = {} THEN 0 ELSE RunEnd(s, p + Len(LoginLit), "nonspace")

\* faulty variant: /https:\/\/[^\s]*/, the word login not required
AltPatternAt_NoLogin(s, i) ==
  IF LitAt(HttpsLit, s, i, FALSE)
    THEN [index |-> i, last |-> RunEnd(s, i + Len(HttpsLit), "nonspace"), group |-> 0]
    ELSE NoMatch

\* /https:\/\/[^\s]*login[^\s]*/ tried at index i
AltPatternAt(s, i) ==
  LET j == i + Len(HttpsLit)
      e == BacktrackLogin(s, RunEnd(s, j, "nonspace"), j)
  IN IF LitAt(HttpsLit, s, i, FALSE) /\ e > 0
       THEN [index |-> i, last |-> e, group |-> 0]
       ELSE NoMatch

\* faulty variant: (\d+?) in place of (\d+) (one digit captured)
LitDigitsAt_Lazy(lit, ignoreCase, s, i) ==
  LET j == i + Len(lit)
  IN IF LitAt(lit, s, i, ignoreCase) /\ RunEnd(s, j, "digit") >= j
       THEN [index |-> i, last |-> j, group |-> j]
       ELSE NoMatch

\* /<lit>(\d+)/ tried at index i
LitDigitsAt(lit, ignoreCase, s, i) ==
  LET j == i + Len(lit)
      e == RunEnd(s, j, "digit")
  IN IF LitAt(lit, s, i, ignoreCase) /\ e >= j
       THEN [index |-> i, last |-> e, group |-> j]
       ELSE NoMatch

\* .*? : grows one character at a time until a digit follows; the index of
\* the first digit from j on when only characters "." matches stand before
\* it, else 0
LazyDot(s, j) ==
  LET stop == CHOOSE g \in j..(Len(s) + 1) :
                /\ g = Len(s) + 1 \/ s[g] \in (Digits \cup LineTerminators)
                /\ \A m \in j..(g - 1) : s[m] \notin (Digits \cup LineTerminators)
  IN IF j > Len(s) THEN 0
     ELSE IF stop <= Len(s) /\ s[stop] \in Digits THEN stop ELSE 0

\* /server.*?(\d+)/i tried at index i
ServerPatternAt(s, i) ==
  LET g == LazyDot(s, i + Len(ServerLit))
  IN IF LitAt(ServerLit, s, i, TRUE) /\ g > 0
       THEN [index |-> i, last |-> RunEnd(s, g, "digit"), group |-> g]
       ELSE NoMatch

\* the regular expressions of the source, by name
PatternAt(pat, s, i) ==
  CASE pat = "url" -> UrlPatternAt(s, i)
    [] pat = "alt" -> AltPatternAt(s, i)
    [] pat = "localhost" -> LitDigitsAt(LocalhostLit, FALSE, s, i)
    [] pat = "loopback" -> LitDigitsAt(LoopbackLit, FALSE, s, i)
    [] pat = "port" -> LitDigitsAt(PortLit, TRUE, s, i)
    [] pat = "server" -> ServerPatternAt(s, i)

\* faulty variant: the rightmost match in place of the leftmost
Match_Last(pat, s) ==
  LET hits == {i \in 1..Len(s) : PatternAt(pat, s, i) # NoMatch}
  IN IF hits = {} THEN NoMatch
     ELSE PatternAt(pat, s, CHOOSE i \in hits : \A k \in hits : k <= i)

\* output.match(pattern) without the g flag: the start index advances from
\* the beginning of the text until the pattern matches there
Match(pat, s) ==
  LET hits == {i \in 1..Len(s) : PatternAt(pat, s, i) # NoMatch}
  IN IF hits = {} THEN NoMatch
     ELSE PatternAt(pat, s, CHOOSE i \in hits : \A k \in hits : i <= k)

-----------------------------------------------------------------------------
(* The scanner *)

\* match[0]
Matched(s, m) == SubSeq(s, m.index, m.last)
\* match[1]
Group1(s, m) == SubSeq(s, m.group, m.last)

\* !output : null, undefined and the empty string are falsy
Falsy(output) == output = Null \/ output = <<>>

\* faulty variant: the alternative pattern tried first
extractOAuthUrl_AltFirst(output) ==
  IF Falsy(output) THEN Null
  ELSE LET altMatch == Match("alt", output)
       IN IF altMatch # NoMatch THEN Matched(output, altMatch)
          ELSE LET match == Match("url", output)
               IN IF match # NoMatch THEN Matched(output, match) ELSE Null

extractOAuthUrl(output) ==
  IF Falsy(output) THEN Null
  ELSE LET match == Match("url", output)
       IN IF match # NoMatch THEN Matched(output, match)
          ELSE LET altMatch == Match("alt", output)
               IN IF altMatch # NoMatch THEN Matched(output, altMatch) ELSE Null

DigitValue(c) == (CHOOSE k \in 1..10 : DigitChars[k] = c) - 1

\* parseInt of a run of decimal digits
RECURSIVE ParseDigits(_, _, _)
ParseDigits(d, k, acc) ==
  IF k > Len(d) THEN acc
  ELSE LET v == acc * 10 + DigitValue(d[k])
       IN ParseDigits(d, k + 1, IF v > ParseCap THEN ParseCap ELSE v)

parseInt(d) == ParseDigits(d, 1, 0)

\* faulty variant: 127.0.0.1 tried before localhost
patterns_Reordered == <<"loopback", "localhost", "port", "server">>

patterns == <<"localhost", "loopback", "port", "server">>

\* faulty variant: the bounds themselves accepted
PortInRange_Inclusive(port) == port >= PortLow /\ port <= PortHigh

PortInRange(port) == port > PortLow /\ port < PortHigh

\* the for loop over patterns, from patterns[k] on
RECURSIVE TryPatterns(_, _)
TryPatterns(output, k) ==
  IF k > Len(patterns) THEN DefaultPort
  ELSE LET match == Match(patterns[k], output)
       IN IF match # NoMatch /\ Group1(output, match) # <<>>
               /\ PortInRange(parseInt(Group1(output, match)))
            THEN parseInt(Group1(output, match))
            ELSE TryPatterns(output, k + 1)

extractAuthPort(output) ==
  IF Falsy(output) THEN DefaultPort ELSE TryPatterns(output, 1)

-----------------------------------------------------------------------------
(* The port-forwarding URL *)

\* decimal digits of a positive integer, most significant first
RECURSIVE NumberToString(_)
NumberToString(n) ==
  IF n < 10 THEN <<DigitChars[n + 1]>>
  ELSE NumberToString(n \div 10) \o <<DigitChars[(n % 10) + 1]>>

\* faulty variant: the forwarding domain looked at first
generatePortForwardingUrl_DomainFirst(port, e) ==
  IF ~Falsy(e.domain)
    THEN HttpsLit \o e.domain \o <<"-">> \o NumberToString(port) \o GithubPreviewDev
  ELSE IF ~Falsy(e.codespace)
    THEN HttpsLit \o e.codespace \o <<"-">> \o NumberToString(port) \o AppGithubDev
  ELSE HttpLocalhost \o NumberToString(port)

generatePortForwardingUrl(port, e) ==
  LET codespaceName == e.codespace
      domain == e.domain
  IN IF ~Falsy(codespaceName)
       THEN HttpsLit \o codespaceName \o <<"-">> \o NumberToString(port) \o AppGithubDev
     ELSE IF ~Falsy(domain)
       THEN HttpsLit \o domain \o <<"-">> \o NumberToString(port) \o GithubPreviewDev
     ELSE HttpLocalhost \o NumberToString(port)

-----------------------------------------------------------------------------
(* Inputs *)

FragUrlA ==
  <<"h", "t", "t", "p", "s", ":", "/", "/", "l", "o", "g", "i", "n", ".",
    "m", "i", "c", "r", "o", "s", "o", "f", "t", "o", "n", "l", "i", "n",
    "e", ".", "c", "o", "m", "/", "a">>
FragUrlBare ==
  <<" ", "h", "t", "t", "p", "s", ":", "/", "/", "l", "o", "g", "i", "n",
    ".", "m", "i", "c", "r", "o", "s", "o", "f", "t", "o", "n", "l", "i",
    "n", "e", ".", "c", "o", "m", "/">>
FragHttpsMy ==
  <<"h", "t", "t", "p", "s", ":", "/", "/", "m", "y">>
FragLocal4321 ==
  <<"l", "o", "c", "a", "l", "h", "o", "s", "t", ":", "4", "3", "2", "1">>
FragLocal1000 ==
  <<"l", "o", "c", "a", "l", "h", "o", "s", "t", ":", "1", "0", "0", "0">>
FragLoop5000 ==
  <<"1", "2", "7", ".", "0", ".", "0", ".", "1", ":", "5", "0", "0", "0">>
FragLoop65535 ==
  <<"1", "2", "7", ".", "0", ".", "0", ".", "1", ":", "6", "5", "5", "3", "5">>
FragPort8080 ==
  <<"P", "o", "r", "t", " ", "8", "0", "8", "0">>
FragPort99999 ==
  <<"p", "o", "r", "t", " ", "9", "9", "9", "9", "9">>
FragServer ==
  <<"S", "e", "r", "v", "e", "r", " ">>
FragDigits ==
  <<"2", "3", "4", "5">>
\* the sample log of the end-to-end scenario
SampleLog ==
  <<"L", "i", "s", "t", "e", "n", "i", "n", "g", " ", "o", "n", " ", "h",
    "t", "t", "p", ":", "/", "/", "l", "o", "c", "a", "l", "h", "o", "s",
    "t", ":", "3", "9", "7", "8", "\n", "V", "i", "s", "i", "t", " ", "h",
    "t", "t", "p", "s", ":", "/", "/", "l", "o", "g", "i", "n", ".", "m",
    "i", "c", "r", "o", "s", "o", "f", "t", "o", "n", "l", "i", "n", "e",
    ".", "c", "o", "m", "/", "c", "o", "m", "m", "o", "n", "/", "o", "a",
    "u", "t", "h", "2", "/", "v", "2", ".", "0", "/", "a", "u", "t", "h",
    "o", "r", "i", "z", "e", "?", "c", "l", "i", "e", "n", "t", "_", "i",
    "d", "=", "a", "b", "c", " ", "t", "o", " ", "c", "o", "n", "t", "i",
    "n", "u", "e">>
SampleUrl ==
  <<"h", "t", "t", "p", "s", ":", "/", "/", "l", "o", "g", "i", "n", ".",
    "m", "i", "c", "r", "o", "s", "o", "f", "t", "o", "n", "l", "i", "n",
    "e", ".", "c", "o", "m", "/", "c", "o", "m", "m", "o", "n", "/", "o",
    "a", "u", "t", "h", "2", "/", "v", "2", ".", "0", "/", "a", "u", "t",
    "h", "o", "r", "i", "z", "e", "?", "c", "l", "i", "e", "n", "t", "_",
    "i", "d", "=", "a", "b", "c">>
EnvFoo ==
  <<"f", "o", "o">>
EnvDom ==
  <<"d", "o", "m">>

UrlFrags == {FragUrlA, FragUrlBare, FragHttpsMy, LoginLit, <<" ">>, <<"U+000B">>}
PortFrags ==
  {FragLocal4321, FragLocal1000, FragLoop5000, FragLoop65535, FragPort8080,
   FragPort99999, FragServer, FragDigits, <<"\n">>}

\* the texts made of at most n fragments of F
RECURSIVE Concats(_, _)
Concats(F, n) ==
  IF n = 0 THEN {<<>>}
  ELSE LET shorter == Concats(F, n - 1)
       IN shorter \cup {t \o f : t \in shorter, f \in F}

\* the URL texts, also with a tab or a line feed at their end
UrlTexts ==
  LET c == Concats(UrlFrags, MaxFrags)
  IN c \cup {t \o <<"\t">> : t \in c} \cup {t \o <<"\n">> : t \in c}

ScanInputs == {Null, SampleLog} \cup UrlTexts \cup Concats(PortFrags, MaxFrags)

EnvValues == {Null, <<>>, EnvFoo, EnvDom}
Envs == [codespace : EnvValues, domain : EnvValues]
NoEnv == [codespace |-> Null, domain |-> Null]
FwdPorts == {AuthServerPort, AgentUiPort, DevelopmentPort, 4321, 1001, 65534, 7}

-----------------------------------------------------------------------------
(* The scanner and the URL builder called on their own *)

InitScan ==
  /\ pc = "scan"
  /\ logContent \in ScanInputs
  /\ env = NoEnv
  /\ oauthUrl = Null
  /\ authPort = 0
  /\ publicAuthUrl = Null
  /\ summaryUrls = <<>>
  /\ events = <<>>
  /\ exitCode = -1
  /\ calls = <<>>

CallExtractOAuthUrl ==
  /\ pc = "scan"
  /\ oauthUrl' = extractOAuthUrl(logContent)
  /\ pc' = "scan_port"
  /\ UNCHANGED <<env, logContent, authPort, publicAuthUrl, summaryUrls, events, exitCode, calls>>

CallExtractAuthPort ==
  /\ pc = "scan_port"
  /\ authPort' = extractAuthPort(logContent)
  /\ pc' = "scanned"
  /\ UNCHANGED <<env, logContent, oauthUrl, publicAuthUrl, summaryUrls, events, exitCode, calls>>

NextScan == CallExtractOAuthUrl \/ CallExtractAuthPort

SpecScan == InitScan /\ [][NextScan]_vars

InitFwd ==
  /\ pc = "fwd"
  /\ logContent = Null
  /\ env \in Envs
  /\ oauthUrl = Null
  /\ authPort \in FwdPorts
  /\ publicAuthUrl = Null
  /\ summaryUrls = <<>>
  /\ events = <<>>
  /\ exitCode = -1
  /\ calls = <<>>

CallGeneratePortForwardingUrl ==
  /\ pc = "fwd"
  /\ publicAuthUrl' = generatePortForwardingUrl(authPort, env)
  /\ pc' = "fwd_done"
  /\ UNCHANGED <<env, logContent, oauthUrl, authPort, summaryUrls, events, exitCode, calls>>

NextFwd == CallGeneratePortForwardingUrl

SpecFwd == InitFwd /\ [][NextFwd]_vars

-----------------------------------------------------------------------------
(* Command execution as the driving sequence sees it *)

\* how the child process of a command ends
ExecOutcomes == {"ok", "nonzero", "spawn_error"}

\* the first call of process.cwd() throws when the working directory of the
\* process has been removed; after a success its value is cached
FirstCallOutcomes == ExecOutcomes \cup {"cwd_gone"}

\* spawn of executeCommandStreaming can also throw at once, or, with no
\* file descriptor free, give a child without pipes
StreamOutcomes == ExecOutcomes \cup {"spawn_threw", "spawn_nofd"}

\* a child without pipes makes child.stdout.on throw before the 'error'
\* listener is attached: the 'error' event of the next tick has no listener
ErrorUnhandled(outcome) == outcome = "spawn_nofd"

\* executeCommand: what the child does becomes a returned result object;
\* process.cwd() is called before the try, so its exception rejects
executeCommand(outcome) ==
  IF outcome = "cwd_gone" THEN [settled |-> "rejected", success |-> FALSE]
  ELSE IF outcome = "ok" THEN [settled |-> "returned", success |-> TRUE]
  ELSE [settled |-> "returned", success |-> FALSE]

\* executeCommandStreaming: close resolves, error rejects, an exception of
\* spawn rejects, an exception of process.cwd() is thrown to the caller
executeCommandStreaming(outcome) ==
  IF outcome = "cwd_gone" THEN [settled |-> "thrown", success |-> FALSE]
  ELSE IF outcome \in {"spawn_error", "spawn_threw", "spawn_nofd"}
    THEN [settled |-> "rejected", success |-> FALSE]
  ELSE [settled |-> "returned", success |-> outcome = "ok"]

\* console.error of executeCommand's catch
CommandFailed(r) == IF r.success THEN <<>> ELSE <<"error Command failed">>

-----------------------------------------------------------------------------
(* testATKExecution *)

DriverEnvs ==
  {NoEnv, [codespace |-> EnvFoo, domain |-> EnvDom], [codespace |-> <<>>, domain |-> EnvDom]}

\* what auth.log may hold when it is read
DriverLogs ==
  {<<>>, SampleLog, FragUrlA, FragHttpsMy \o LoginLit, FragLocal4321, FragPort99999}

Init ==
  /\ pc = "verify_node"
  /\ env \in DriverEnvs
  /\ logContent = Null
  /\ oauthUrl = Null
  /\ authPort = 0
  /\ publicAuthUrl = Null
  /\ summaryUrls = <<>>
  /\ events = <<>>
  /\ exitCode = -1
  /\ calls = <<>>

\* the catch of the whole sequence: print and process.exit(1)
Fatal(done) ==
  /\ events' = events \o done \o <<"error Execution test failed", "exit 1">>
  /\ exitCode' = 1
  /\ pc' = "exited"
  /\ UNCHANGED <<env, logContent, oauthUrl, authPort, publicAuthUrl, summaryUrls, calls>>

\* go on with the next step
Goto(next, done) ==
  /\ events' = events \o done
  /\ pc' = next
  /\ UNCHANGED <<env, logContent, oauthUrl, authPort, publicAuthUrl, summaryUrls, exitCode, calls>>

VerifyNode ==
  /\ pc = "verify_node"
  /\ \E o \in FirstCallOutcomes :
       LET nodeVersion == executeCommand(o)
       IN IF nodeVersion.settled = "rejected"
            THEN Fatal(<<>>)
            ELSE Goto("verify_npm",
                      <<"exec node --version">> \o CommandFailed(nodeVersion)
                        \o (IF nodeVersion.success THEN <<"log Node.js">> ELSE <<>>))

VerifyNpm ==
  /\ pc = "verify_npm"
  /\ \E o \in ExecOutcomes :
       LET npmVersion == executeCommand(o)
       IN Goto("verify_atk",
               <<"exec npm --version">> \o CommandFailed(npmVersion)
                 \o (IF npmVersion.success THEN <<"log npm">> ELSE <<>>))

VerifyAtk ==
  /\ pc = "verify_atk"
  /\ \E o \in ExecOutcomes :
       LET atkVersion == executeCommand(o)
       IN IF atkVersion.success
            THEN Goto("verify_agent", <<"exec atk --version", "log ATK CLI">>)
            ELSE Goto("install_atk",
                      <<"exec atk --version">> \o CommandFailed(atkVersion)
                        \o <<"log ATK CLI not found. Installing">>)

\* faulty variant: a failed install is reported and the sequence goes on
InstallAtk_NoEscalate ==
  /\ pc = "install_atk"
  /\ \E o \in StreamOutcomes :
       LET installResult == executeCommandStreaming(o)
       IN IF installResult.settled = "rejected"
            THEN Fatal(<<"stream npm install -g atk">>)
          ELSE IF installResult.success
            THEN Goto("verify_agent",
                      <<"stream npm install -g atk", "log ATK CLI installed">>)
          ELSE Goto("verify_agent", <<"stream npm install -g atk">>)

InstallAtk ==
  /\ pc = "install_atk"
  /\ \E o \in StreamOutcomes :
       LET installResult == executeCommandStreaming(o)
       IN IF installResult.settled = "rejected"
            THEN Fatal(<<"stream npm install -g atk">>)
          ELSE IF installResult.success
            THEN Goto("verify_agent",
                      <<"stream npm install -g atk", "log ATK CLI installed">>)
          ELSE Fatal(<<"stream npm install -g atk", "throw Failed to install ATK CLI">>)

VerifyAgent ==
  /\ pc = "verify_agent"
  /\ \E stat \in {"directory", "other", "throws"} :
       CASE stat = "directory" ->
              Goto("list_agent", <<"stat agent", "log Agent directory found">>)
         [] stat = "other" -> Goto("check_deps", <<"stat agent">>)
         [] stat = "throws" ->
              Goto("mkdir_agents", <<"stat agent", "log Agent directory not found">>)

ListAgent ==
  /\ pc = "list_agent"
  /\ \E o \in ExecOutcomes :
       LET listResult == executeCommand(o)
       IN Goto("check_deps",
               <<"exec ls -la">> \o CommandFailed(listResult)
                 \o (IF listResult.success THEN <<"log Agent contents">> ELSE <<>>))

MkdirAgents ==
  /\ pc = "mkdir_agents"
  /\ \E ok \in BOOLEAN :
       IF ok THEN Goto("create_agent", <<"mkdir agents">>)
             ELSE Fatal(<<"mkdir agents">>)

CreateAgent ==
  /\ pc = "create_agent"
  /\ \E o \in StreamOutcomes :
       LET createResult == executeCommandStreaming(o)
       IN IF createResult.settled = "rejected"
            THEN Fatal(<<"stream atk new">>)
          ELSE IF createResult.success
            THEN Goto("check_deps", <<"stream atk new", "log M365 agent created">>)
          ELSE Fatal(<<"stream atk new", "throw Failed to create M365 agent">>)

CheckDeps ==
  /\ pc = "check_deps"
  /\ \E manifest \in {"ok", "unreadable", "malformed", "no_name"} :
       CASE manifest = "ok" ->
              Goto("stat_node_modules", <<"readFile package.json", "log Package.json found">>)
         [] manifest = "no_name" ->
              Goto("mkdir_logs",
                   <<"readFile package.json", "log Package.json found",
                     "warn Could not read package.json">>)
         [] OTHER ->
              Goto("mkdir_logs",
                   <<"readFile package.json", "warn Could not read package.json">>)

StatNodeModules ==
  /\ pc = "stat_node_modules"
  /\ \E exists \in BOOLEAN :
       IF exists
         THEN Goto("mkdir_logs", <<"stat node_modules", "log Dependencies already installed">>)
         ELSE Goto("install_deps", <<"stat node_modules", "log Installing dependencies">>)

InstallDeps ==
  /\ pc = "install_deps"
  /\ \E o \in StreamOutcomes :
       LET installDeps == executeCommandStreaming(o)
       IN IF installDeps.settled = "rejected"
            THEN Goto(IF ErrorUnhandled(o) THEN "error_unhandled" ELSE "mkdir_logs",
                      <<"stream npm install", "warn Could not read package.json">>)
          ELSE IF installDeps.success
            THEN Goto("mkdir_logs", <<"stream npm install", "log Dependencies installed">>)
          ELSE Goto("mkdir_logs",
                    <<"stream npm install", "warn Dependency installation had issues">>)

\* the 'error' event of the child of npm install, which has no listener,
\* ends the process when fs.mkdir of the logs directory has been started
UnhandledError ==
  /\ pc = "error_unhandled"
  /\ events' = events \o <<"mkdir logs">>
  /\ exitCode' = 1
  /\ pc' = "crashed"
  /\ UNCHANGED <<env, logContent, oauthUrl, authPort, publicAuthUrl, summaryUrls, calls>>

MkdirLogs ==
  /\ pc = "mkdir_logs"
  /\ \E ok \in BOOLEAN :
       IF ok THEN Goto("start_auth", <<"mkdir logs">>)
             ELSE Fatal(<<"mkdir logs">>)

StartAuth ==
  /\ pc = "start_auth"
  /\ \E o \in ExecOutcomes :
       LET authResult == executeCommand(o)
       IN Goto("wait",
               <<"exec atk auth login">> \o CommandFailed(authResult)
                 \o (IF authResult.success THEN <<"log ATK auth command started">>
                                           ELSE <<"warn ATK auth start result">>))

\* faulty variant: the log is read without waiting
Wait_Skipped ==
  /\ pc = "wait"
  /\ Goto("read_log", <<>>)

Wait ==
  /\ pc = "wait"
  /\ Goto("read_log", <<"sleep 8000">>)

\* fs.readFile rejects: the catch of step 6
ReadLogFails ==
  /\ pc = "read_log"
  /\ Goto("list_processes", <<"readFile auth.log", "log Could not read auth log">>)

\* fs.readFile resolves: print the log, scan it, print the results
ReadLog ==
  /\ pc = "read_log"
  /\ \E content \in DriverLogs :
       /\ logContent' = content
       /\ oauthUrl' = extractOAuthUrl(content)
       /\ authPort' = extractAuthPort(content)
       /\ IF extractOAuthUrl(content) # Null
            THEN /\ publicAuthUrl' = generatePortForwardingUrl(authPort', env)
                 /\ events' = events \o <<"readFile auth.log", "log Auth log contents",
                                          "extract", "log OAuth URL">>
                 /\ pc' = "copy_log"
            ELSE /\ publicAuthUrl' = publicAuthUrl
                 /\ events' = events \o <<"readFile auth.log", "log Auth log contents",
                                          "extract", "warn No OAuth URL found">>
                 /\ pc' = "summary"
  /\ UNCHANGED <<env, summaryUrls, exitCode, calls>>

\* fs.copyFile inside the try of step 6
CopyLog ==
  /\ pc = "copy_log"
  /\ \E ok \in BOOLEAN :
       IF ok THEN Goto("summary", <<"copyFile auth.log", "log Log saved">>)
             ELSE Goto("list_processes",
                       <<"copyFile auth.log", "log Could not read auth log">>)

ListProcesses ==
  /\ pc = "list_processes"
  /\ \E o \in ExecOutcomes :
       LET psResult == executeCommand(o)
       IN Goto("summary",
               <<"exec ps aux">> \o CommandFailed(psResult)
                 \o (IF psResult.success THEN <<"log Process status">> ELSE <<>>))

Summary ==
  /\ pc = "summary"
  /\ events' = events \o <<"log ATK Execution Test Complete">>
  /\ summaryUrls' = << generatePortForwardingUrl(AuthServerPort, env),
                       generatePortForwardingUrl(AgentUiPort, env),
                       generatePortForwardingUrl(DevelopmentPort, env) >>
  /\ exitCode' = 0
  /\ pc' = "done"
  /\ UNCHANGED <<env, logContent, oauthUrl, authPort, publicAuthUrl, calls>>

Next ==
  \/ VerifyNode \/ VerifyNpm \/ VerifyAtk \/ InstallAtk
  \/ VerifyAgent \/ ListAgent \/ MkdirAgents \/ CreateAgent
  \/ CheckDeps \/ StatNodeModules \/ InstallDeps
  \/ UnhandledError \/ MkdirLogs \/ StartAuth \/ Wait
  \/ ReadLogFails \/ ReadLog \/ CopyLog \/ ListProcesses \/ Summary

Spec == Init /\ [][Next]_vars

-----------------------------------------------------------------------------
(* executeCommandStreaming, event by event *)

\* how many invocations are followed, and how many chunks their children write
MaxCalls == 2
MaxChunks == 3

\* the chunks a child writes to a pipe, as bytes: a vertical tab, "a" and a
\* line feed, a whole two-byte character, and the two halves of one
StreamChunks == {<<11, 97, 10>>, <<195, 169>>, <<195>>, <<169, 32>>}

\* exit codes of a child that ran, and the code of 'close' after a failed spawn
ExitCodes == {0, 1}
SpawnFailedCodes == {-2}

SpawnErrorMessage ==
  <<"s", "p", "a", "w", "n", " ", "s", "h", " ", "E", "N", "O", "E", "N", "T">>

\* the characters of the bytes in use; a character outside ASCII and the
\* replacement character are named, not written
Ascii == (10 :> "\n") @@ (11 :> "U+000B") @@ (32 :> " ") @@ (97 :> "a")
TwoByte == (<<195, 169>> :> "e-acute")
Replacement == "U+FFFD"

\* data.toString(): UTF-8 decoding of one chunk on its own; a byte that does
\* not begin or complete a character becomes the replacement character
RECURSIVE toString(_, _)
toString(data, k) ==
  IF k > Len(data) THEN <<>>
  ELSE IF data[k] < 128 THEN <<Ascii[data[k]]>> \o toString(data, k + 1)
  ELSE IF data[k] \in 194..223 /\ k < Len(data) /\ data[k + 1] \in 128..191
    THEN <<TwoByte[<<data[k], data[k + 1]>>]>> \o toString(data, k + 2)
  ELSE <<Replacement>> \o toString(data, k + 1)

\* String.prototype.trim
trim(t) ==
  LET keep == {i \in 1..Len(t) : t[i] \notin WhiteSpace}
  IN IF keep = {} THEN <<>>
     ELSE SubSeq(t, CHOOSE i \in keep : \A j \in keep : i <= j,
                    CHOOSE i \in keep : \A j \in keep : j <= i)

\* a promise takes the first resolve or reject and ignores the later ones
Settle(promise, state, value) ==
  IF promise.state = "pending" THEN [state |-> state, value |-> value] ELSE promise

NoValue == [success |-> FALSE, stdout |-> <<>>, stderr |-> <<>>, exitCode |-> 0]

\* what spawn does: the child runs, or the failure is reported later by
\* 'error', or spawn throws at once, or (no file descriptor free) the child
\* has no pipes and the failure is reported later by 'error'
SpawnOutcomes == {"running", "spawn_failed", "spawn_threw", "spawn_nofd"}

\* the exceptions of spawn and of process.cwd()
SpawnThrewMessage ==
  <<"s", "p", "a", "w", "n", " ", "E", "N", "O", "T", "D", "I", "R">>
CwdGoneMessage ==
  <<"E", "N", "O", "E", "N", "T", ":", " ", "n", "o", " ", "s", "u", "c",
    "h", " ", "f", "i", "l", "e", " ", "o", "r", " ", "d", "i", "r", "e",
    "c", "t", "o", "r", "y", ",", " ", "u", "v", "_", "c", "w", "d">>
SpawnThrew == [name |-> "Error", code |-> "ENOTDIR", message |-> SpawnThrewMessage]

\* the exception of child.stdout.on when the child has no pipes
NoPipesMessage ==
  <<"C", "a", "n", "n", "o", "t", " ", "r", "e", "a", "d", " ", "p", "r",
    "o", "p", "e", "r", "t", "i", "e", "s", " ", "o", "f", " ", "u", "n",
    "d", "e", "f", "i", "n", "e", "d", " ", "(", "r", "e", "a", "d", "i",
    "n", "g", " ", "'", "o", "n", "'", ")">>
NoPipes == [name |-> "TypeError", message |-> NoPipesMessage]
CwdGone == [name |-> "Error", code |-> "ENOENT", message |-> CwdGoneMessage]

\* the state of a new invocation: its own stdout, stderr and promise.  An
\* exception of spawn rejects the promise at once, and no event follows; an
\* exception of child.stdout.on rejects it at once and leaves the child
\* without listeners; an exception of process.cwd() is thrown before there
\* is a promise
NewCall(how) ==
  [ child     |-> CASE how \in {"running", "spawn_failed"} -> how
                    [] how = "spawn_nofd" -> "no_listeners"
                    [] OTHER -> "none",
    errored   |-> FALSE,
    closeCode |-> <<>>,
    outChunks |-> <<>>,
    errChunks |-> <<>>,
    stdout    |-> <<>>,
    stderr    |-> <<>>,
    written   |-> <<>>,
    promise   |-> CASE how = "spawn_threw" -> [state |-> "rejected", value |-> SpawnThrew]
                    [] how = "spawn_nofd" -> [state |-> "rejected", value |-> NoPipes]
                    [] how = "cwd_gone" -> [state |-> "thrown", value |-> CwdGone]
                    [] OTHER -> [state |-> "pending", value |-> NoValue] ]

\* child.stdout.on('data')
OnStdoutData(k, data) ==
  LET output == toString(data, 1)
  IN [k EXCEPT !.stdout = @ \o output,
               !.written = Append(@, <<"stdout", output>>)]

\* faulty variant: the chunk of standard error is added to stdout
OnStderrData_IntoStdout(k, data) ==
  LET output == toString(data, 1)
  IN [k EXCEPT !.stdout = @ \o output,
               !.written = Append(@, <<"stderr", output>>)]

\* child.stderr.on('data')
OnStderrData(k, data) ==
  LET output == toString(data, 1)
  IN [k EXCEPT !.stderr = @ \o output,
               !.written = Append(@, <<"stderr", output>>)]

\* child.on('close')
OnClose(k, code) ==
  [k EXCEPT !.promise =
     Settle(@, "resolved",
            [success |-> code = 0, stdout |-> trim(k.stdout),
             stderr |-> trim(k.stderr), exitCode |-> code])]

\* child.on('error')
OnError(k, message) ==
  [k EXCEPT !.promise =
     Settle(@, "rejected",
            [success |-> FALSE, stdout |-> k.stdout,
             stderr |-> message, exitCode |-> 1])]

RECURSIVE ChunksWritten(_)
ChunksWritten(cs) ==
  IF cs = <<>> THEN 0
  ELSE Len(Head(cs).outChunks) + Len(Head(cs).errChunks) + ChunksWritten(Tail(cs))

InitStream ==
  /\ pc = "stream"
  /\ env = NoEnv
  /\ logContent = Null
  /\ oauthUrl = Null
  /\ authPort = 0
  /\ publicAuthUrl = Null
  /\ summaryUrls = <<>>
  /\ events = <<>>
  /\ exitCode = -1
  /\ calls = <<>>

\* an 'error' event without listener is due at the next tick, before any
\* event of the pipes or of the end of a child
ErrorDue == \E c \in DOMAIN calls : calls[c].child = "no_listeners"

StreamStep ==
  /\ pc = "stream"
  /\ UNCHANGED <<pc, env, logContent, oauthUrl, authPort, publicAuthUrl, summaryUrls,
                 events, exitCode>>

\* a call of executeCommandStreaming.  process.cwd() throws in every call
\* when the working directory of the process is gone, and in none once it
\* has succeeded
StreamInvoke ==
  /\ StreamStep
  /\ Len(calls) < MaxCalls
  /\ \E how \in IF calls = <<>> THEN SpawnOutcomes \cup {"cwd_gone"}
                ELSE IF calls[1].promise.state = "thrown" THEN {"cwd_gone"}
                ELSE SpawnOutcomes :
       calls' = Append(calls, NewCall(how))

\* the child wrote a chunk to its standard output
StdoutData ==
  /\ StreamStep
  /\ ~ErrorDue
  /\ ChunksWritten(calls) < MaxChunks
  /\ \E c \in DOMAIN calls, data \in StreamChunks :
       /\ calls[c].child = "running"
       /\ calls' = [calls EXCEPT ![c] =
                      [OnStdoutData(@, data) EXCEPT !.outChunks = Append(@, data)]]

\* the child wrote a chunk to its standard error
StderrData ==
  /\ StreamStep
  /\ ~ErrorDue
  /\ ChunksWritten(calls) < MaxChunks
  /\ \E c \in DOMAIN calls, data \in StreamChunks :
       /\ calls[c].child = "running"
       /\ calls' = [calls EXCEPT ![c] =
                      [OnStderrData(@, data) EXCEPT !.errChunks = Append(@, data)]]

\* 'error': the child could not be spawned
ChildError ==
  /\ StreamStep
  /\ \E c \in DOMAIN calls :
       /\ calls[c].child = "spawn_failed"
       /\ ~calls[c].errored
       /\ calls' = [calls EXCEPT ![c] =
                      [OnError(@, SpawnErrorMessage) EXCEPT !.errored = TRUE]]

\* 'close': the child has ended and its pipes are closed; after a failed
\* spawn it follows 'error'
ChildClose ==
  /\ StreamStep
  /\ ~ErrorDue
  /\ \E c \in DOMAIN calls :
       \E code \in IF calls[c].child = "running" THEN ExitCodes ELSE SpawnFailedCodes :
         /\ \/ calls[c].child = "running"
            \/ calls[c].child = "spawn_failed" /\ calls[c].errored
         /\ calls' = [calls EXCEPT ![c] =
                        [OnClose(@, code) EXCEPT !.child = "closed",
                                                 !.closeCode = <<code>>]]

\* 'error' of a child without listeners: the process ends with status 1,
\* whatever the other invocations were doing
ChildErrorUnhandled ==
  /\ pc = "stream"
  /\ ErrorDue
  /\ pc' = "crashed"
  /\ exitCode' = 1
  /\ UNCHANGED <<env, logContent, oauthUrl, authPort, publicAuthUrl, summaryUrls,
                 events, calls>>

NextStream ==
  \/ StreamInvoke \/ StdoutData \/ StderrData \/ ChildError \/ ChildClose
  \/ ChildErrorUnhandled

SpecStream == InitStream /\ [][NextStream]_vars

-----------------------------------------------------------------------------
(* What the texts contain, stated without the matcher *)

UrlDone == pc \in {"scan_port", "scanned"}
Scanned == pc = "scanned"

\* the literal lit stands in s at index i
Occurs(lit, s, i) ==
  /\ i + Len(lit) - 1 <= Len(s)
  /\ s[i] = lit[1]
  /\ SubSeq(s, i, i + Len(lit) - 1) = lit

\* the indices where lit stands in s
Starts(lit, s) == {i \in 1..Len(s) : Occurs(lit, s, i)}

\* the same, letters compared without regard to case
OccursAnyCase(lit, s, i) ==
  /\ i + Len(lit) - 1 <= Len(s)
  /\ \A k \in 1..Len(lit) :
       \/ s[i + k - 1] = lit[k]
       \/ \E a \in 1..26 : lit[k] = LowerCase[a] /\ s[i + k - 1] = UpperCase[a]

NoSpaceIn(s, a, b) == \A k \in a..b : s[k] \notin WhiteSpace
AllDigits(s, a, b) == \A k \in a..b : s[k] \in Digits
EndsRun(s, j, set) == j = Len(s) \/ s[j + 1] \in set

\* s[i..j] is https://login.microsoftonline.com/<token>, the token not empty
\* and free of whitespace
PrimaryAt(s, i, j) ==
  /\ Occurs(UrlLit, s, i)
  /\ j >= i + Len(UrlLit)
  /\ j <= Len(s)
  /\ NoSpaceIn(s, i + Len(UrlLit), j)

\* ... and whitespace follows it
PrimaryBeforeSpaceAt(s, i, j) ==
  /\ PrimaryAt(s, i, j)
  /\ j < Len(s)
  /\ s[j + 1] \in WhiteSpace

\* s[i..j] is a whitespace-free https://...login...
AltAt(s, i, j) ==
  /\ Occurs(HttpsLit, s, i)
  /\ j <= Len(s)
  /\ \E p \in (i + Len(HttpsLit))..(j - Len(LoginLit) + 1) : Occurs(LoginLit, s, p)
  /\ NoSpaceIn(s, i + Len(HttpsLit), j)

Positions(s) == 1..Len(s)
HasPrimary(s) == \E i \in Starts(UrlLit, s) : \E j \in i..Len(s) : PrimaryAt(s, i, j)
HasAlt(s) == \E i \in Starts(HttpsLit, s) : \E j \in i..Len(s) : AltAt(s, i, j)

\* C1: when the text holds https://login.microsoftonline.com/<token> followed
\* by whitespace, extractOAuthUrl returns that substring up to the whitespace,
\* and of several such substrings the leftmost one.
Thm_C1 ==
  (UrlDone /\ logContent # Null) =>
    \A i \in Starts(UrlLit, logContent) : \A j \in i..Len(logContent) :
      ( /\ PrimaryBeforeSpaceAt(logContent, i, j)
        /\ \A i2 \in Starts(UrlLit, logContent) : \A j2 \in i2..Len(logContent) :
             i2 < i => ~PrimaryBeforeSpaceAt(logContent, i2, j2) )
      => oauthUrl = SubSeq(logContent, i, j)

\* two different login URLs, each followed by whitespace; the first is returned
Wit_C1 ==
  /\ UrlDone
  /\ logContent # Null
  /\ \E i \in Positions(logContent) : \E j \in i..Len(logContent) :
       /\ PrimaryBeforeSpaceAt(logContent, i, j)
       /\ oauthUrl = SubSeq(logContent, i, j)
       /\ \E i2 \in (j + 1)..Len(logContent) : \E j2 \in i2..Len(logContent) :
            /\ PrimaryBeforeSpaceAt(logContent, i2, j2)
            /\ SubSeq(logContent, i2, j2) # oauthUrl

\* C2: the two patterns are applied in priority order: without a primary
\* substring the leftmost whitespace-free https://...login... run is
\* returned; with a primary substring, the primary match is returned even
\* when an alternate substring starts earlier in the text.
Thm_C2 ==
  (UrlDone /\ logContent # Null) =>
    /\ (~HasPrimary(logContent) /\ HasAlt(logContent)) =>
         \E i \in Starts(HttpsLit, logContent) : \E j \in i..Len(logContent) :
           /\ AltAt(logContent, i, j)
           /\ EndsRun(logContent, j, WhiteSpace)
           /\ \A i2 \in Starts(HttpsLit, logContent) : \A j2 \in i2..Len(logContent) :
                i2 < i => ~AltAt(logContent, i2, j2)
           /\ oauthUrl = SubSeq(logContent, i, j)
    /\ HasPrimary(logContent) =>
         \E i \in Starts(UrlLit, logContent) : \E j \in i..Len(logContent) :
           /\ PrimaryAt(logContent, i, j)
           /\ EndsRun(logContent, j, WhiteSpace)
           /\ \A i2 \in Starts(UrlLit, logContent) : \A j2 \in i2..Len(logContent) :
                i2 < i => ~PrimaryAt(logContent, i2, j2)
           /\ oauthUrl = SubSeq(logContent, i, j)

\* an alternate substring starts before the primary one; the primary is returned
Wit_C2 ==
  /\ UrlDone
  /\ logContent # Null
  /\ \E i \in Positions(logContent) : \E j \in i..Len(logContent) :
       /\ PrimaryAt(logContent, i, j)
       /\ oauthUrl = SubSeq(logContent, i, j)
       /\ \E a \in 1..(i - 1) : \E b \in a..Len(logContent) : AltAt(logContent, a, b)

\* C3: extractOAuthUrl returns null exactly when the text holds neither the
\* primary nor the fallback pattern (null and empty input included); every
\* input has a result.
Thm_C3 ==
  UrlDone =>
    (oauthUrl = Null <=>
       \/ logContent = Null
       \/ ~HasPrimary(logContent) /\ ~HasAlt(logContent))

\* a text with https:// and login, but whitespace between them: no match
Wit_C3 ==
  /\ UrlDone
  /\ oauthUrl = Null
  /\ logContent # Null
  /\ \E i \in Positions(logContent) : \E p \in (i + 1)..Len(logContent) :
       Occurs(HttpsLit, logContent, i) /\ Occurs(LoginLit, logContent, p)

-----------------------------------------------------------------------------
(* The captures of the four port patterns, stated without the matcher *)

PatternLit(name) ==
  CASE name = "localhost" -> LocalhostLit
    [] name = "loopback" -> LoopbackLit
    [] name = "port" -> PortLit
    [] name = "server" -> ServerLit

LitOccurs(name, s, i) ==
  IF name \in {"port", "server"} THEN OccursAnyCase(PatternLit(name), s, i)
                                 ELSE Occurs(PatternLit(name), s, i)

\* where the digits of an occurrence at i begin: right after the literal,
\* or for server...<port> at the first digit of the same line
GroupStarts(name, s, i) ==
  LET a == i + Len(PatternLit(name))
  IN IF name = "server"
       THEN {g \in a..Len(s) :
               /\ s[g] \in Digits
               /\ \A m \in a..(g - 1) : s[m] \notin (Digits \cup LineTerminators)}
       ELSE {g \in {a} : g <= Len(s) /\ s[g] \in Digits}

\* the end of the whole digit run that begins at g
GroupEnd(s, g) ==
  CHOOSE e \in g..Len(s) : AllDigits(s, g, e) /\ (e = Len(s) \/ s[e + 1] \notin Digits)

\* the indices where the pattern occurs with a port
Occurrences(name, s) ==
  {i \in Positions(s) : LitOccurs(name, s, i) /\ GroupStarts(name, s, i) # {}}

\* the digits of the occurrence at i
DigitsOf(name, s, i) ==
  LET g == CHOOSE x \in GroupStarts(name, s, i) : TRUE
  IN SubSeq(s, g, GroupEnd(s, g))

Leftmost(S) == CHOOSE i \in S : \A j \in S : i <= j

\* value of a digit run, digit by digit from the right
RECURSIVE ValueOf(_)
ValueOf(d) ==
  IF d = <<>> THEN 0
  ELSE LET v == 10 * ValueOf(SubSeq(d, 1, Len(d) - 1))
                  + (CHOOSE n \in 0..9 : DigitChars[n + 1] = d[Len(d)])
       IN IF v > ParseCap THEN ParseCap ELSE v

ValidPort(p) == 1000 < p /\ p < 65535

PatternNames == <<"localhost", "loopback", "port", "server">>

\* the pattern's leftmost occurrence carries a port in the open range
Produces(name, s) ==
  /\ Occurrences(name, s) # {}
  /\ ValidPort(ValueOf(DigitsOf(name, s, Leftmost(Occurrences(name, s)))))

Produced(name, s) == ValueOf(DigitsOf(name, s, Leftmost(Occurrences(name, s))))

\* C4 as stated: whenever a text holds localhost:<p> with 1000 < p < 65535,
\* whatever stands before or after it, extractAuthPort returns p.
CE_C4 ==
  (Scanned /\ logContent # Null) =>
    \A i \in Occurrences("localhost", logContent) :
      ValidPort(ValueOf(DigitsOf("localhost", logContent, i)))
        => authPort = ValueOf(DigitsOf("localhost", logContent, i))

\* C4 amended: when the leftmost localhost:<digits> of the text carries a
\* port p with 1000 < p < 65535 (the whole digit run counted), then
\* extractAuthPort returns p, whatever else the text holds.
Thm_C4 ==
  (Scanned /\ logContent # Null /\ Produces("localhost", logContent))
    => authPort = Produced("localhost", logContent)

\* localhost:<p> in the middle of a text, text before and after it
Wit_C4 ==
  /\ Scanned
  /\ logContent # Null
  /\ Produces("localhost", logContent)
  /\ authPort = 4321
  /\ Leftmost(Occurrences("localhost", logContent)) > 1
  /\ Len(logContent) > Leftmost(Occurrences("localhost", logContent)) + Len(FragLocal4321)

\* C5 as stated: pattern order decides, so that a text with an in-range
\* localhost:<q> and an in-range 127.0.0.1:<p> or port <p> yields q.
CE_C5 ==
  (Scanned /\ logContent # Null) =>
    \A i \in Occurrences("localhost", logContent) :
      ( /\ ValidPort(ValueOf(DigitsOf("localhost", logContent, i)))
        /\ \E name \in {"loopback", "port"} : \E j \in Occurrences(name, logContent) :
             ValidPort(ValueOf(DigitsOf(name, logContent, j))) )
      => authPort = ValueOf(DigitsOf("localhost", logContent, i))

\* C5 amended: the four patterns are tried in the order localhost, 127.0.0.1,
\* port, server, each with its leftmost occurrence only, and the first one
\* whose capture lies strictly between 1000 and 65535 gives the result,
\* wherever in the text the occurrences stand.
Thm_C5 ==
  (Scanned /\ logContent # Null) =>
    \A k \in 1..4 :
      ( /\ Produces(PatternNames[k], logContent)
        /\ \A k2 \in 1..(k - 1) : ~Produces(PatternNames[k2], logContent) )
      => authPort = Produced(PatternNames[k], logContent)

\* an in-range 127.0.0.1:<p> or port <p> stands before the localhost:<q>
\* that gives the result
Wit_C5 ==
  /\ Scanned
  /\ logContent # Null
  /\ Produces("localhost", logContent)
  /\ authPort = Produced("localhost", logContent)
  /\ \E name \in {"loopback", "port"} :
       /\ Produces(name, logContent)
       /\ Produced(name, logContent) # authPort
       /\ Leftmost(Occurrences(name, logContent))
            < Leftmost(Occurrences("localhost", logContent))

\* C6: extractAuthPort returns 3978 for null and empty input and when no
\* pattern captures a number strictly between 1000 and 65535; every result
\* is 3978 or lies strictly between 1000 and 65535.
Thm_C6 ==
  Scanned =>
    /\ (logContent = Null \/ logContent = <<>>) => authPort = 3978
    /\ (logContent # Null /\ \A k \in 1..4 : ~Produces(PatternNames[k], logContent))
         => authPort = 3978
    /\ authPort = 3978 \/ ValidPort(authPort)

\* both boundary values are captured and refused
Wit_C6 ==
  /\ Scanned
  /\ logContent # Null
  /\ authPort = 3978
  /\ Occurrences("localhost", logContent) # {}
  /\ Occurrences("loopback", logContent) # {}
  /\ Produced("localhost", logContent) = 1000
  /\ Produced("loopback", logContent) = 65535

\* C8: for the sample log the scanner yields the sample URL and port 3978,
\* the port being the capture of the localhost pattern.
Thm_C8 ==
  (Scanned /\ logContent = SampleLog) =>
    /\ oauthUrl = SampleUrl
    /\ authPort = 3978
    /\ Match("localhost", logContent) # NoMatch
    /\ parseInt(Group1(logContent, Match("localhost", logContent))) = authPort
    /\ Produces("localhost", logContent)

Wit_C8 ==
  /\ Scanned
  /\ logContent = SampleLog
  /\ oauthUrl = SampleUrl
  /\ authPort = 3978

-----------------------------------------------------------------------------
(* The port-forwarding URL *)

IsSet(v) == v # Null /\ v # <<>>

\* url is head, then the decimal numeral of port, then tail
UrlOfPort(url, head, port, tail) ==
  LET a == Len(head) + 1
      b == Len(url) - Len(tail)
  IN /\ b >= a
     /\ SubSeq(url, 1, Len(head)) = head
     /\ SubSeq(url, b + 1, Len(url)) = tail
     /\ AllDigits(url, a, b)
     /\ (b > a => url[a] # "0")
     /\ ValueOf(SubSeq(url, a, b)) = port

ForwardingUrlFor(url, port, e) ==
  IF IsSet(e.codespace)
    THEN UrlOfPort(url, <<"h", "t", "t", "p", "s", ":", "/", "/">> \o e.codespace \o <<"-">>,
                   port,
                   <<".", "a", "p", "p", ".", "g", "i", "t", "h", "u", "b", ".", "d", "e", "v">>)
  ELSE IF IsSet(e.domain)
    THEN UrlOfPort(url, <<"h", "t", "t", "p", "s", ":", "/", "/">> \o e.domain \o <<"-">>,
                   port,
                   <<".", "g", "i", "t", "h", "u", "b", "p", "r", "e", "v", "i", "e", "w",
                     ".", "d", "e", "v">>)
  ELSE UrlOfPort(url, <<"h", "t", "t", "p", ":", "/", "/", "l", "o", "c", "a", "l", "h",
                        "o", "s", "t", ":">>, port, <<>>)

\* C7: generatePortForwardingUrl is a three-way choice with strict precedence
\* (codespace name, else forwarding domain, else localhost); the URL is fixed
\* by the port and the environment, and the call changes neither.
Thm_C7 ==
  [][ (pc = "fwd" /\ pc' = "fwd_done") =>
        /\ env' = env
        /\ authPort' = authPort
        /\ ForwardingUrlFor(publicAuthUrl', authPort, env)
        /\ (env.codespace = EnvFoo /\ authPort = 3978) =>
             publicAuthUrl' = <<"h", "t", "t", "p", "s", ":", "/", "/", "f", "o", "o", "-",
                                "3", "9", "7", "8", ".", "a", "p", "p", ".", "g", "i", "t",
                                "h", "u", "b", ".", "d", "e", "v">>
        /\ (env = NoEnv /\ authPort = 3978) =>
             publicAuthUrl' = <<"h", "t", "t", "p", ":", "/", "/", "l", "o", "c", "a", "l",
                                "h", "o", "s", "t", ":", "3", "9", "7", "8">> ]_vars

\* both variables are set: the codespace name decides
Wit_C7 ==
  /\ pc = "fwd_done"
  /\ env.codespace = EnvFoo
  /\ env.domain = EnvDom
  /\ authPort = 3978
  /\ publicAuthUrl = HttpsLit \o EnvFoo \o <<"-", "3", "9", "7", "8">> \o AppGithubDev

-----------------------------------------------------------------------------
(* The driving sequence *)

\* the entries of a sequence that lie in a set, in their order
RECURSIVE Only(_, _)
Only(seq, set) ==
  IF seq = <<>> THEN <<>>
  ELSE (IF Head(seq) \in set THEN <<Head(seq)>> ELSE <<>>) \o Only(Tail(seq), set)

Count(seq, e) == Len(Only(seq, {e}))

\* the steps of the authentication phase
AuthSteps ==
  {"exec atk auth login", "sleep 8000", "readFile auth.log", "extract",
   "log OAuth URL", "warn No OAuth URL found", "copyFile auth.log"}

LogWasRead == logContent # Null

\* C9 as stated: in every run that read the log file the steps are start,
\* wait, read once, extract, print, and the archival copy, which is made
\* whether or not a login URL was found.
CE_C9 ==
  (pc = "done" /\ LogWasRead) =>
    /\ Count(events, "copyFile auth.log") = 1
    /\ SubSeq(Only(events, AuthSteps), 1, 4)
         = <<"exec atk auth login", "sleep 8000", "readFile auth.log", "extract">>

\* C9 amended: in every run that read the log file the steps are start, wait,
\* read (once), extract, print; the archival copy follows, once, exactly when
\* a login URL was found in the log, and is not attempted otherwise.
Thm_C9 ==
  (pc \in {"done", "summary"} /\ LogWasRead) =>
    Only(events, AuthSteps) =
      IF oauthUrl # Null
        THEN <<"exec atk auth login", "sleep 8000", "readFile auth.log", "extract",
               "log OAuth URL", "copyFile auth.log">>
        ELSE <<"exec atk auth login", "sleep 8000", "readFile auth.log", "extract",
               "warn No OAuth URL found">>

\* a finished run that read a log without a login URL: nothing was copied
Wit_C9 ==
  /\ pc = "done"
  /\ LogWasRead
  /\ logContent # <<>>
  /\ oauthUrl = Null
  /\ Count(events, "copyFile auth.log") = 0
  /\ Count(events, "readFile auth.log") = 1

\* the run after a failed read of auth.log
ReadFailureHandled ==
  (pc = "done" /\ ~LogWasRead) =>
    /\ Count(events, "log Could not read auth log") = 1
    /\ Count(events, "exec ps aux") = 1
    /\ Count(events, "readFile auth.log") = 1
    /\ Count(events, "extract") = 0
    /\ Count(events, "copyFile auth.log") = 0
    /\ Count(events, "log ATK Execution Test Complete") = 1
    /\ exitCode = 0

\* C10: after a failed read the sequence prints the diagnostic, lists the
\* processes once, does not read again, extracts nothing, copies nothing,
\* and ends with the summary and status 0; and the diagnostic branch is
\* entered only when the read of the log file failed.
CE_C10 ==
  /\ ReadFailureHandled
  /\ Count(events, "log Could not read auth log") > 0 => ~LogWasRead

-----------------------------------------------------------------------------
(* How a failed command reaches its caller *)

\* the command of an invocation failed: the spawn failed, or the child ended
\* with a code other than 0
StreamFailed(k) == k.errored \/ (k.closeCode # <<>> /\ k.closeCode # <<0>>)

\* executeCommand returns a result with success false for every failure
ExecuteCommandReturns ==
  \A o \in ExecOutcomes \ {"ok"} :
    /\ executeCommand(o).settled = "returned"
    /\ ~executeCommand(o).success

\* C11: a failed command, be it a non-zero exit or a failed spawn, reaches
\* the caller as a result with success false that carries the message, and
\* neither executeCommand nor executeCommandStreaming throws or rejects.
CE_C11 ==
  /\ ExecuteCommandReturns
  /\ \A c \in DOMAIN calls :
       /\ calls[c].promise.state # "rejected"
       /\ StreamFailed(calls[c]) =>
            /\ calls[c].promise.state = "resolved"
            /\ ~calls[c].promise.value.success
       /\ calls[c].errored => calls[c].promise.value.stderr = SpawnErrorMessage

-----------------------------------------------------------------------------
(* How the driving sequence ends *)

\* the calls testATKExecution makes, as they appear in events
Steps ==
  { "exec node --version", "exec npm --version", "exec atk --version",
    "stream npm install -g atk", "stat agent", "exec ls -la", "mkdir agents",
    "stream atk new", "readFile package.json", "stat node_modules",
    "stream npm install", "mkdir logs", "exec atk auth login", "sleep 8000",
    "readFile auth.log", "extract", "copyFile auth.log", "exec ps aux" }

\* the call made last
LastStep ==
  LET at == {i \in 1..Len(events) : events[i] \in Steps}
  IN IF at = {} THEN "none"
     ELSE events[CHOOSE i \in at : \A j \in at : j <= i]

\* the top-level catch has run: its line is printed and nothing follows exit
CaughtAtTop ==
  /\ Len(events) >= 2
  /\ events[Len(events) - 1] = "error Execution test failed"
  /\ events[Len(events)] = "exit 1"
  /\ Count(events, "error Execution test failed") = 1

\* status 1 exactly when an error reached the top-level catch, status 0
\* exactly at the end of the sequence, after the summary
\* the process was ended by an 'error' event without listener: no line of
\* the top-level catch, no summary
Crashed ==
  /\ Count(events, "error Execution test failed") = 0
  /\ Count(events, "log ATK Execution Test Complete") = 0
  /\ Len(events) >= 3
  /\ SubSeq(events, Len(events) - 2, Len(events)) =
       <<"stream npm install", "warn Could not read package.json", "mkdir logs">>
  /\ ~ENABLED Next

\* status 1 exactly when an error reached the top-level catch or the
\* process was ended by an 'error' event, status 0 exactly at the end of the
\* sequence, after the summary
ExitStatusOrCrash ==
  /\ exitCode \in {-1, 0, 1}
  /\ exitCode = 1 <=> pc \in {"exited", "crashed"}
  /\ pc = "exited" <=> Count(events, "error Execution test failed") > 0
  /\ exitCode = 0 <=> pc = "done"
  /\ pc = "exited" => CaughtAtTop /\ ~ENABLED Next
  /\ pc = "exited" => Count(events, "log ATK Execution Test Complete") = 0
  /\ pc = "crashed" => Crashed
  /\ pc = "done" => events[Len(events)] = "log ATK Execution Test Complete"

ExitStatus ==
  /\ exitCode \in {-1, 0, 1}
  /\ exitCode = 1 <=> pc = "exited"
  /\ exitCode = 1 <=> Count(events, "error Execution test failed") > 0
  /\ exitCode = 0 <=> pc = "done"
  /\ pc = "exited" => CaughtAtTop /\ ~ENABLED Next
  /\ pc = "exited" => Count(events, "log ATK Execution Test Complete") = 0
  /\ pc = "done" => events[Len(events)] = "log ATK Execution Test Complete"

\* the ATK install ran and did not succeed
InstallFailed ==
  /\ Count(events, "stream npm install -g atk") > 0
  /\ Count(events, "log ATK CLI installed") = 0

\* the agent creation ran and did not succeed
CreateFailed ==
  /\ Count(events, "stream atk new") > 0
  /\ Count(events, "log M365 agent created") = 0

\* the steps the claim lists as never halting the sequence
ListedAsNotHalting ==
  { "exec node --version", "exec npm --version", "exec atk --version",
    "stream atk new", "stream npm install", "readFile package.json",
    "exec atk auth login", "extract", "readFile auth.log" }

\* C12 as stated: the status is 1 exactly when an error reached the top-level
\* catch and 0 otherwise; a failed ATK install is fatal; a failure of a
\* version check, of the agent creation, of the dependency install, of the
\* manifest read, of the auth command, of the URL search or of the log read
\* never halts the sequence.
CE_C12 ==
  /\ ExitStatus
  /\ InstallFailed => pc = "exited"
  /\ pc = "exited" => LastStep \notin ListedAsNotHalting

\* the top-level catch ran before any call was made: the first
\* process.cwd() threw
BeforeFirstStep == events = <<"error Execution test failed", "exit 1">>

\* the steps after which the sequence can end with status 1
FatalSteps ==
  {"stream npm install -g atk", "stream atk new", "mkdir agents", "mkdir logs"}

\* C12, amended: the status is 1 exactly when an error reached the top-level
\* catch, or when the child of the dependency install had no pipes and its
\* 'error' event ended the process, and 0 otherwise; a failed ATK install
\* and a failed agent creation are both fatal, and so are a failed mkdir and
\* a working directory of the process that is gone at the first command;
\* after every other step, failed or not, the sequence goes on, and it ends
\* with the summary and status 0.
Thm_C12 ==
  /\ ExitStatusOrCrash
  /\ InstallFailed => pc = "exited"
  /\ CreateFailed => pc = "exited"
  /\ pc = "exited" => LastStep \in FatalSteps \/ BeforeFirstStep
  /\ pc \notin {"exited", "crashed", "done"} => ENABLED Next

\* a run that reached the summary although the version checks, the
\* dependency install, the auth command and the log read all failed
Wit_C12 ==
  /\ pc = "done"
  /\ exitCode = 0
  /\ Count(events, "error Command failed") >= 3
  /\ Count(events, "warn Dependency installation had issues") = 1
  /\ Count(events, "warn ATK auth start result") = 1
  /\ Count(events, "log Could not read auth log") = 1

-----------------------------------------------------------------------------
(* What a streamed command resolves with *)

\* the text of the chunks, each decoded on its own, in the order of arrival
RECURSIVE TextOf(_)
TextOf(chunks) ==
  IF chunks = <<>> THEN <<>>
  ELSE toString(Head(chunks), 1) \o TextOf(Tail(chunks))

\* r is t without the white space at its two ends
IsTrimmed(r, t) ==
  \E i \in 1..(Len(t) + 1) :
    \E j \in (i - 1)..Len(t) :
      /\ \A n \in 1..(i - 1) : t[n] \in WhiteSpace
      /\ \A n \in (j + 1)..Len(t) : t[n] \in WhiteSpace
      /\ i <= j => t[i] \notin WhiteSpace /\ t[j] \notin WhiteSpace
      /\ Len(r) = j - i + 1
      /\ \A n \in 1..Len(r) : r[n] = t[i + n - 1]

\* the promise of an invocation has been resolved or rejected
Settled(k) == k.promise.state \in {"resolved", "rejected"}

\* an invocation whose 'close' or 'error' was delivered is settled; one that
\* is rejected had an 'error' or an exception in the call; one that is resolved
\* has a closed child and carries the code, the verdict and the trimmed text
\* of its own chunks; every chunk was echoed once
StreamResult(k) ==
  /\ (k.child = "closed" \/ k.errored) => Settled(k)
  /\ k.promise.state = "rejected" =>
       (k.errored \/ k.promise.value \in {SpawnThrew, NoPipes})
  /\ Len(k.written) = Len(k.outChunks) + Len(k.errChunks)
  /\ k.promise.state = "resolved" =>
       /\ k.child = "closed"
       /\ k.closeCode = <<k.promise.value.exitCode>>
       /\ k.promise.value.success <=> k.promise.value.exitCode = 0
       /\ IsTrimmed(k.promise.value.stdout, TextOf(k.outChunks))
       /\ IsTrimmed(k.promise.value.stderr, TextOf(k.errChunks))

\* C13: every invocation settles once: it is settled as soon as 'close' or
\* 'error' is delivered and a settled promise never changes, whatever event
\* follows; when it resolves the child has closed, and the result carries
\* the exit code, success exactly for code 0, and as stdout and stderr the
\* trimmed concatenation, in arrival order, of the chunks of that stream of
\* that invocation, none lost, none twice, none of another invocation.
Thm_C13 ==
  [][ \A c \in DOMAIN calls' :
        /\ StreamResult(calls'[c])
        /\ (c \in DOMAIN calls /\ calls[c].promise.state # "pending") =>
             calls'[c].promise = calls[c].promise ]_vars

\* one invocation resolved with two chunks of standard output and one of
\* standard error, trimmed at an end, while the other, whose spawn failed,
\* was rejected and then closed
Wit_C13 ==
  /\ Len(calls) = 2
  /\ \E c \in {1, 2} :
       /\ calls[c].promise.state = "resolved"
       /\ Len(calls[c].outChunks) = 2
       /\ Len(calls[c].errChunks) = 1
       /\ calls[c].promise.value.stdout # calls[c].stdout
       /\ calls[c].promise.value.stdout # <<>>
       /\ calls[3 - c].promise.state = "rejected"
       /\ calls[3 - c].child = "closed"

=============================================================================
